---- MODULE Spec2Model ----
(***************************************************************************)
(* immich-folder-albums: one synchronisation pass (run) of folders that    *)
(* carry a .album marker file into albums of a remote Immich server,       *)
(* guarded by a process-wide non-blocking lock.                            *)
(*                                                                         *)
(* A path is the sequence of its components (pathlib's parts without the   *)
(* anchor): the root is <<>>, /A/B is <<"A", "B">>.  Every remote call is  *)
(* one step of the calling thread and either returns or raises.            *)
(***************************************************************************)
EXTENDS Integers, Sequences, FiniteSets, TLC

VARIABLES
    lock,      \* threading.Lock at module level: TRUE when held
    args,      \* the parsed argparse.Namespace handed to every run()
    fs,        \* local filesystem: directory -> parsed content of its .album file
    folder,    \* remote index: directory -> ids of the assets directly in it
    remote,    \* remote albums, in the order GET /albums lists them
    nextId,    \* the id the remote gives to the next album it creates
    th,        \* per invoking thread: the frame of its run() call and what it did
    passes,    \* number of passes started so far
    history,   \* summaries of the passes that ran to the end, oldest first
    others     \* number of albums other clients of the remote created so far

vars == <<lock, args, fs, folder, remote, nextId, th, passes, history, others>>

----------------------------------------------------------------------------
(* Bounds of the model *)

\* run() is invoked again and again (cron); passes started in one behaviour
MaxPasses == 2
\* largest --chunk-size tried (0 stands for unset)
MaxChunkSize == 2

\* Albums that other clients of the server create while the program runs
MaxOthers == 1

Threads == {"cron1", "cron2"}

\* find_album_by_name's None
NoId == 0

\* The directory tree of the media library: /, /2024 Trip, /2024 Trip/B
Root == << >>
A    == <<"2024 Trip">>
AB   == <<"2024 Trip", "B">>
Dirs == {Root, A, AB}

\* Position of a path component in Python's string order ("2024 Trip" < "B")
Rank(c) == CASE c = "2024 Trip" -> 1 [] c = "B" -> 2

\* The order in which the remote lists the folders that hold assets
RemotePathOrder == <<AB, A>>

\* The assets a folder of the remote index may hold directly (asset ids)
FolderContents(d) ==
    CASE d = Root -> {{}}
      [] d = A    -> {{}, {1, 2}}
      [] d = AB   -> {{2, 3}}

\* What yaml.safe_load gives for a .album file: the keys present and their values
Doc(keys, album_name, recursive) ==
    [keys |-> keys, name |-> album_name, description |-> "", order |-> "desc",
     recursive |-> recursive]

EmptyDoc  == Doc({}, "", TRUE)
NamedDoc  == Doc({"name"}, "X", TRUE)
NonRecDoc == Doc({"recursive"}, "", FALSE)

\* The .album files a directory may carry
DocChoices(d) ==
    CASE d = Root -> {EmptyDoc}
      [] d = A    -> {EmptyDoc, NamedDoc, NonRecDoc}
      [] d = AB   -> {EmptyDoc, NamedDoc}

\* The album lists the remote may hold when the process starts
InitialAlbums ==
    { << >>,
      << [id |-> 1, albumName |-> "X", assets |-> {9}],
         [id |-> 2, albumName |-> "X", assets |-> {}] >> }

\* The patterns --album-regex may hold ("" stands for unset)
Regexes == {"", "\\d+"}

\* The values --chunk-size may hold (0 stands for unset)
ChunkSizes == {0, MaxChunkSize}

----------------------------------------------------------------------------
(* Pure helpers *)

Min(a, b) == IF a < b THEN a ELSE b

\* dict.get(key, default) on a parsed .album document
Get(props, key, default) == IF key \in props.keys THEN props[key] ELSE default

\* Only the directory that holds p
parent_only(p) == IF Len(p) = 0 THEN {} ELSE { SubSeq(p, 1, Len(p) - 1) }

\* Path.parents: every proper ancestor, immediate parent through the root
parents(p) == { SubSeq(p, 1, n) : n \in 0 .. (Len(p) - 1) }

\* Path.name: the last component, '' for the root
path_name(p) == IF Len(p) = 0 THEN "" ELSE p[Len(p)]

\* A test that lets every path through
is_relative_to_anything(p, other) == TRUE

\* Path.is_relative_to(other): other is p or an ancestor of p
is_relative_to(p, other) ==
    /\ Len(other) <= Len(p)
    /\ SubSeq(p, 1, Len(other)) = other

\* Path.__lt__: lexicographic on the components
PathLT(p, q) ==
    \E k \in 1 .. (Len(q)) :
        /\ k <= Len(p) + 1
        /\ \A m \in 1 .. (k - 1) : p[m] = q[m]
        /\ \/ k = Len(p) + 1
           \/ Rank(p[k]) < Rank(q[k])

\* The paths in descending order, as an unsorted set may happen to iterate
RECURSIVE sorted_descending(_)
sorted_descending(S) ==
    IF S = {} THEN << >>
    ELSE LET last == CHOOSE p \in S : \A q \in S \ {p} : PathLT(q, p)
         IN  <<last>> \o sorted_descending(S \ {last})

\* sorted(S) for a set of paths
RECURSIVE sorted(_)
sorted(S) ==
    IF S = {} THEN << >>
    ELSE LET least == CHOOSE p \in S : \A q \in S \ {p} : PathLT(p, q)
         IN  <<least>> \o sorted(S \ {least})

\* (p / '.album').is_file()
is_file(files, p) == p \in DOMAIN files

\* run, lines 112-115: the paths and all their ancestors
potential_albums(unique_paths) ==
    { unique_paths[n] : n \in 1 .. Len(unique_paths) }
        \cup UNION { parents(unique_paths[n]) : n \in 1 .. Len(unique_paths) }

\* run, line 117: the candidates that carry a marker file
albums(files, unique_paths) ==
    { p \in potential_albums(unique_paths) : is_file(files, p) }

\* re.search(regexp, s).group(), or "" when there is no match; the patterns and
\* names of this model: \d+ matches the first run of digits
re_search(regexp, s) ==
    IF regexp = "\\d+" /\ s = "2024 Trip" THEN "2024" ELSE ""

has_match(regexp, s) == regexp = "\\d+" /\ s = "2024 Trip"

\* process_album_name that leaves the pattern aside
process_album_name_verbatim(regexp, folder_name) == folder_name

process_album_name(regexp, folder_name) ==
    IF regexp = "" THEN folder_name
    ELSE IF has_match(regexp, folder_name) THEN re_search(regexp, folder_name)
    ELSE folder_name

\* A lookup that never finds the album
find_album_by_name_never(album_name, list) == NoId

\* find_album_by_name returning the last album of that name instead
find_album_by_name_last(album_name, list) ==
    LET hits == { n \in 1 .. Len(list) : list[n].albumName = album_name }
    IN  IF hits = {} THEN NoId
        ELSE list[CHOOSE n \in hits : \A m \in hits : n >= m].id

\* find_album_by_name: the id of the first album of that name, else None
find_album_by_name(album_name, list) ==
    LET hits == { n \in 1 .. Len(list) : list[n].albumName = album_name }
    IN  IF hits = {} THEN NoId
        ELSE list[CHOOSE n \in hits : \A m \in hits : n <= m].id

\* list(a_set): the ids in whatever order the set iterates
Orders(S) ==
    { s \in [1 .. Cardinality(S) -> S] : \A m, n \in 1 .. Cardinality(S) : m # n => s[m] # s[n] }

\* Only the chunks that are full: the tail shorter than chunk_size is lost
ChunksFullOnly(ids, chunk_size) ==
    IF chunk_size # 0
    THEN [c \in 1 .. (Len(ids) \div chunk_size) |->
            SubSeq(ids, (c - 1) * chunk_size + 1, c * chunk_size)]
    ELSE << ids >>

\* range(0, n, step) as the 1-based start positions
ChunkStarts(n, step) == { m \in 1 .. n : (m - 1) % step = 0 }

\* run, lines 150-155: the chunks of the id list
Chunks(ids, chunk_size) ==
    IF chunk_size # 0
    THEN LET starts == ChunkStarts(Len(ids), chunk_size)
         IN  [c \in 1 .. Cardinality(starts) |->
                SubSeq(ids, (c - 1) * chunk_size + 1, Min(c * chunk_size, Len(ids)))]
    ELSE << ids >>

Range(s) == { s[n] : n \in 1 .. Len(s) }

----------------------------------------------------------------------------
(* The frame of one run() call *)

\* One entry of a thread's record of what its invocation did: a remote call, or
\* the load of a .album file, and whether it returned (ok) or raised.  listed is
\* the album ids a get_albums call returned, in order; ids are the asset ids an
\* album_add_assets call carried
Call(op, dir, path, album_name, id, listed, ids, ok) ==
    [op |-> op, dir |-> dir, path |-> path, albumName |-> album_name, id |-> id,
     listed |-> listed, ids |-> ids, ok |-> ok]

\* A thread that is not inside run()
IdleFrame ==
    [pc |-> "idle", result |-> "none", calls |-> << >>,
     albums_ids |-> << >>, immich_albums |-> << >>, unique_paths |-> << >>,
     albums |-> << >>, i |-> 0, album_name |-> "", album_desc |-> "",
     album_order |-> "desc", recursive |-> TRUE, album_id |-> NoId, album_assets_ids |-> {},
     j |-> 0, chunks |-> << >>]

\* A guard that never refuses (the lock taken as if it were reentrant)
acquire_always(l) == TRUE

\* lock.acquire(blocking=False): succeeds exactly when the lock is free
acquire(l) == ~l

\* An exception that is caught and logged where it occurs: run() carries on
RaiseSwallowed(f, call) == [f EXCEPT !.calls = Append(f.calls, call)]

\* An exception leaves run(): the frame is gone, nothing else is executed
Raise(f, call) ==
    [IdleFrame EXCEPT !.result = "raised", !.calls = Append(f.calls, call)]

\* The for loop of run() moves to the next album_root, or to line 161
NextAlbumRoot(f) ==
    [f EXCEPT !.i = f.i + 1,
              !.pc = IF f.i + 1 > Len(f.albums) THEN "release" ELSE "safe_load",
              !.album_name = "", !.album_desc = "", !.album_order = "desc",
              !.recursive = TRUE,
              !.album_id = NoId, !.album_assets_ids = {}, !.j = 0,
              !.chunks = << >>]

\* The index of the next path of unique_paths, from position n on, that line 143
\* lets through; Len + 1 when there is none
NextRelative(f, n) ==
    LET hits == { m \in n .. Len(f.unique_paths) :
                    is_relative_to(f.unique_paths[m], f.albums[f.i]) }
    IN  IF hits = {} THEN Len(f.unique_paths) + 1
        ELSE CHOOSE m \in hits : \A k \in hits : m <= k

\* Lines 147-159 once the asset set is complete: the list, its chunks, and the
\* submission loop (which is skipped when there is no chunk)
Submit(f, ids) ==
    LET chunks == Chunks(ids, args.chunk_size)
    IN  IF chunks = << >> THEN NextAlbumRoot(f)
        ELSE [f EXCEPT !.pc = "album_add_assets", !.chunks = chunks]

\* The ids of the albums on the remote, in the order get_albums lists them
RemoteIds == [n \in 1 .. Len(remote) |-> remote[n].id]

\* What the pass that made these calls created and submitted
Summary(calls) ==
    [created |-> Cardinality({ n \in 1 .. Len(calls) :
                     calls[n].op = "create_album" /\ calls[n].ok }),
     submitted |-> [d \in Dirs |->
                     UNION { calls[n].ids : n \in { m \in 1 .. Len(calls) :
                               /\ calls[m].op = "album_add_assets"
                               /\ calls[m].ok
                               /\ calls[m].dir = d } }]]

----------------------------------------------------------------------------
(* Initial states: the configuration, the library and the remote *)

Init ==
    /\ lock = FALSE
    /\ args \in [dry_run : BOOLEAN, delete_all_albums : BOOLEAN,
                 chunk_size : ChunkSizes, album_regex : Regexes]
    /\ \E marked \in SUBSET Dirs :
          fs \in { f \in [marked -> {EmptyDoc, NamedDoc, NonRecDoc}] :
                     \A d \in marked : f[d] \in DocChoices(d) }
    /\ folder \in { f \in [Dirs -> {{}, {1, 2}, {2, 3}}] :
                      \A d \in Dirs : f[d] \in FolderContents(d) }
    /\ remote \in InitialAlbums
    /\ nextId = Len(remote) + 1
    /\ th = [t \in Threads |-> IdleFrame]
    /\ passes = 0
    /\ history = << >>
    /\ others = 0

----------------------------------------------------------------------------
(* run(), lines 100-161, one step per remote call *)

\* A start of the pass that leaves the albums alone when dry-run is set
AcquireSparingAlbumsInDryRun(t) ==
    /\ th[t].pc = "idle"
    /\ passes < MaxPasses
    /\ acquire(lock)
    /\ lock' = TRUE
    /\ passes' = passes + 1
    /\ th' = [th EXCEPT ![t] =
                [IdleFrame EXCEPT !.result = "running",
                    !.pc = IF args.delete_all_albums /\ ~args.dry_run
                           THEN "delete_all_albums" ELSE "get_albums"]]
    /\ UNCHANGED <<args, fs, folder, remote, nextId, history, others>>

\* A run() that deletes all albums whatever the flag says
AcquireAlwaysDeleting(t) ==
    /\ th[t].pc = "idle"
    /\ passes < MaxPasses
    /\ acquire(lock)
    /\ lock' = TRUE
    /\ passes' = passes + 1
    /\ th' = [th EXCEPT ![t] =
                [IdleFrame EXCEPT !.result = "running", !.pc = "delete_all_albums"]]
    /\ UNCHANGED <<args, fs, folder, remote, nextId, history, others>>

\* Lines 101-102, lock taken: the pass starts
Acquire(t) ==
    /\ th[t].pc = "idle"
    /\ passes < MaxPasses
    /\ acquire(lock)
    /\ lock' = TRUE
    /\ passes' = passes + 1
    /\ th' = [th EXCEPT ![t] =
                [IdleFrame EXCEPT !.result = "running",
                    !.pc = IF args.delete_all_albums THEN "delete_all_albums"
                           ELSE "get_albums"]]
    /\ UNCHANGED <<args, fs, folder, remote, nextId, history, others>>

\* A run() that finds the lock held and releases it on its way out
SkippedReleasing(t) ==
    /\ th[t].pc = "idle"
    /\ ~acquire(lock)
    /\ lock' = FALSE
    /\ th' = [th EXCEPT ![t] = [IdleFrame EXCEPT !.result = "skipped"]]
    /\ UNCHANGED <<args, fs, folder, remote, nextId, passes, history, others>>

\* Lines 101-102, lock held by another pass: return False
Skipped(t) ==
    /\ th[t].pc = "idle"
    /\ ~acquire(lock)
    /\ th' = [th EXCEPT ![t] = [IdleFrame EXCEPT !.result = "skipped"]]
    /\ UNCHANGED <<lock, args, fs, folder, remote, nextId, passes, history, others>>

\* delete_all_albums, lines 82-83: list the albums, keep their ids
DeleteAllList(t) ==
    LET f == th[t] IN
    /\ f.pc = "delete_all_albums"
    /\ \/ th' = [th EXCEPT ![t] =
                   [f EXCEPT !.albums_ids = RemoteIds,
                             !.pc = IF remote = << >> THEN "get_albums" ELSE "delete_album",
                             !.calls = Append(f.calls,
                                 Call("get_albums", Root, Root, "", NoId, RemoteIds, {}, TRUE))]]
       \/ th' = [th EXCEPT ![t] =
                   Raise(f, Call("get_albums", Root, Root, "", NoId, << >>, {}, FALSE))]
    /\ UNCHANGED <<lock, args, fs, folder, remote, nextId, passes, history, others>>

\* A deletion loop that notes the failure and goes on with the next album
delete_album_continues(f, call) ==
    [f EXCEPT !.albums_ids = Tail(f.albums_ids),
              !.pc = IF Tail(f.albums_ids) = << >> THEN "get_albums" ELSE "delete_album",
              !.calls = Append(f.calls, call)]

\* delete_all_albums, lines 84-85, when delete_album raises: the exception
\* leaves the loop, delete_all_albums and run()
delete_album_raises(f, call) == Raise(f, call)

\* delete_all_albums, lines 84-85, with a remote that answers the deletion
\* without carrying it out
DeleteAlbumLeavingAlbum(t) ==
    LET f  == th[t]
        id == Head(f.albums_ids)
    IN
    /\ f.pc = "delete_album"
    /\ \/ th' = [th EXCEPT ![t] =
                   [f EXCEPT !.albums_ids = Tail(f.albums_ids),
                             !.pc = IF Tail(f.albums_ids) = << >> THEN "get_albums"
                                    ELSE "delete_album",
                             !.calls = Append(f.calls,
                                 Call("delete_album", Root, Root, "", id, << >>, {}, TRUE))]]
       \/ th' = [th EXCEPT ![t] =
                   delete_album_raises(f, Call("delete_album", Root, Root, "", id, << >>, {}, FALSE))]
    /\ UNCHANGED <<lock, args, fs, folder, remote, nextId, passes, history, others>>

\* delete_all_albums, lines 84-85: delete the next album of the list
DeleteAlbum(t) ==
    LET f  == th[t]
        id == Head(f.albums_ids)
    IN
    /\ f.pc = "delete_album"
    /\ \/ /\ remote' = SelectSeq(remote, LAMBDA a : a.id # id)
          /\ th' = [th EXCEPT ![t] =
                      [f EXCEPT !.albums_ids = Tail(f.albums_ids),
                                !.pc = IF Tail(f.albums_ids) = << >> THEN "get_albums"
                                       ELSE "delete_album",
                                !.calls = Append(f.calls,
                                    Call("delete_album", Root, Root, "", id, << >>, {}, TRUE))]]
       \/ /\ th' = [th EXCEPT ![t] =
                      delete_album_raises(f, Call("delete_album", Root, Root, "", id, << >>, {}, FALSE))]
          /\ UNCHANGED remote
    /\ UNCHANGED <<lock, args, fs, folder, nextId, passes, history, others>>

\* Line 109: the snapshot of the remote albums
GetAlbums(t) ==
    LET f == th[t] IN
    /\ f.pc = "get_albums"
    /\ \/ th' = [th EXCEPT ![t] =
                   [f EXCEPT !.immich_albums =
                                 [n \in 1 .. Len(remote) |->
                                     [id |-> remote[n].id, albumName |-> remote[n].albumName]],
                             !.pc = "get_unique_paths",
                             !.calls = Append(f.calls,
                                 Call("get_albums", Root, Root, "", NoId, RemoteIds, {}, TRUE))]]
       \/ th' = [th EXCEPT ![t] =
                   Raise(f, Call("get_albums", Root, Root, "", NoId, << >>, {}, FALSE))]
    /\ UNCHANGED <<lock, args, fs, folder, remote, nextId, passes, history, others>>

\* Lines 111-119: the asset paths, the candidates, the marked ones in order
GetUniquePaths(t) ==
    LET f == th[t]
        unique_paths == SelectSeq(RemotePathOrder, LAMBDA p : folder[p] # {})
        found == sorted(albums(fs, unique_paths))
    IN
    /\ f.pc = "get_unique_paths"
    /\ \/ th' = [th EXCEPT ![t] =
                   [f EXCEPT !.unique_paths = unique_paths,
                             !.albums = found,
                             !.i = 1,
                             !.pc = IF found = << >> THEN "release" ELSE "safe_load",
                             !.calls = Append(f.calls,
                                 Call("get_unique_paths", Root, Root, "", NoId, << >>, {}, TRUE))]]
       \/ th' = [th EXCEPT ![t] =
                   Raise(f, Call("get_unique_paths", Root, Root, "", NoId, << >>, {}, FALSE))]
    /\ UNCHANGED <<lock, args, fs, folder, remote, nextId, passes, history, others>>

\* Lines 123-134 without the dry-run exit of lines 130-131
ResolvedIgnoringDryRun(f, album_props) ==
    LET album_root == f.albums[f.i]
        album_name == Get(album_props, "name",
                          process_album_name(args.album_regex, path_name(album_root)))
        g == [f EXCEPT !.album_name = album_name,
                       !.album_desc = Get(album_props, "description", ""),
                       !.album_order = Get(album_props, "order", "desc"),
                       !.recursive = Get(album_props, "recursive", TRUE)]
        album_id == find_album_by_name(album_name, f.immich_albums)
    IN  IF album_id = NoId THEN [g EXCEPT !.pc = "create_album"]
        ELSE [g EXCEPT !.album_id = album_id, !.pc = "get_folder_assets"]

\* Lines 123-134 with the creation put off until there are assets to add
ResolvedCreatingLater(f, album_props) ==
    LET album_root == f.albums[f.i]
        album_name == Get(album_props, "name",
                          process_album_name(args.album_regex, path_name(album_root)))
        g == [f EXCEPT !.album_name = album_name,
                       !.album_desc = Get(album_props, "description", ""),
                       !.album_order = Get(album_props, "order", "desc"),
                       !.recursive = Get(album_props, "recursive", TRUE)]
        album_id == find_album_by_name(album_name, f.immich_albums)
    IN  IF args.dry_run THEN NextAlbumRoot(g)
        ELSE [g EXCEPT !.album_id = album_id, !.pc = "get_folder_assets"]

\* Lines 123-134 with the lookup made in the albums the remote holds now
ResolvedAgainstRemote(f, album_props) ==
    LET album_root == f.albums[f.i]
        album_name == Get(album_props, "name",
                          process_album_name(args.album_regex, path_name(album_root)))
        g == [f EXCEPT !.album_name = album_name,
                       !.album_desc = Get(album_props, "description", ""),
                       !.album_order = Get(album_props, "order", "desc"),
                       !.recursive = Get(album_props, "recursive", TRUE)]
        album_id == find_album_by_name(album_name, remote)
    IN  IF args.dry_run THEN NextAlbumRoot(g)
        ELSE IF album_id = NoId THEN [g EXCEPT !.pc = "create_album"]
        ELSE [g EXCEPT !.album_id = album_id, !.pc = "get_folder_assets"]

\* Lines 123-134 for the loaded document: the descriptor, the dry-run exit,
\* the lookup in the snapshot
Resolved(f, album_props) ==
    LET album_root == f.albums[f.i]
        album_name == Get(album_props, "name",
                          process_album_name(args.album_regex, path_name(album_root)))
        g == [f EXCEPT !.album_name = album_name,
                       !.album_desc = Get(album_props, "description", ""),
                       !.album_order = Get(album_props, "order", "desc"),
                       !.recursive = Get(album_props, "recursive", TRUE)]
        album_id == find_album_by_name(album_name, f.immich_albums)
    IN  IF args.dry_run THEN NextAlbumRoot(g)
        ELSE IF album_id = NoId THEN [g EXCEPT !.pc = "create_album"]
        ELSE [g EXCEPT !.album_id = album_id, !.pc = "get_folder_assets"]

\* Lines 120-134: open and parse the .album file of the next album_root
\* (open() or yaml.safe_load() may raise), then resolve
SafeLoad(t) ==
    LET f == th[t]
        album_root == f.albums[f.i]
    IN
    /\ f.pc = "safe_load"
    /\ \/ th' = [th EXCEPT ![t] =
                   Resolved([f EXCEPT !.calls = Append(f.calls,
                                 Call("safe_load", album_root, album_root, "", NoId, << >>, {}, TRUE))],
                            fs[album_root])]
       \/ th' = [th EXCEPT ![t] =
                   Raise(f, Call("safe_load", album_root, album_root, "", NoId, << >>, {}, FALSE))]
    /\ UNCHANGED <<lock, args, fs, folder, remote, nextId, passes, history, others>>

\* Lines 135-137: no album of that name in the snapshot, create one
CreateAlbum(t) ==
    LET f == th[t]
        album_root == f.albums[f.i]
    IN
    /\ f.pc = "create_album"
    /\ \/ /\ remote' = Append(remote,
                          [id |-> nextId, albumName |-> f.album_name, assets |-> {}])
          /\ nextId' = nextId + 1
          /\ th' = [th EXCEPT ![t] =
                      [f EXCEPT !.album_id = nextId,
                                !.pc = "get_folder_assets",
                                !.calls = Append(f.calls,
                                    Call("create_album", album_root, album_root, f.album_name, nextId, << >>, {}, TRUE))]]
       \/ /\ th' = [th EXCEPT ![t] =
                      Raise(f, Call("create_album", album_root, album_root, f.album_name, NoId, << >>, {}, FALSE))]
          /\ UNCHANGED <<remote, nextId>>
    /\ UNCHANGED <<lock, args, fs, folder, passes, history, others>>

\* Line 139: the assets directly under album_root; then the recursion of lines
\* 141-145 starts, or the set is complete
GetFolderAssets(t) ==
    LET f == th[t]
        album_root == f.albums[f.i]
        first == NextRelative(f, 1)
        g == [f EXCEPT !.album_assets_ids = folder[album_root],
                       !.calls = Append(f.calls,
                           Call("get_folder_assets", album_root, album_root, "", NoId, << >>, {}, TRUE))]
    IN
    /\ f.pc = "get_folder_assets"
    /\ \/ /\ f.recursive /\ first <= Len(f.unique_paths)
          /\ th' = [th EXCEPT ![t] = [g EXCEPT !.pc = "get_subfolder_assets", !.j = first]]
       \/ /\ ~(f.recursive /\ first <= Len(f.unique_paths))
          /\ \E ids \in Orders(g.album_assets_ids) :
                th' = [th EXCEPT ![t] = Submit(g, ids)]
       \/ th' = [th EXCEPT ![t] =
                   Raise(f, Call("get_folder_assets", album_root, album_root, "", NoId, << >>, {}, FALSE))]
    /\ UNCHANGED <<lock, args, fs, folder, remote, nextId, passes, history, others>>

\* Lines 142-145: the assets of the next asset path under album_root
GetSubfolderAssets(t) ==
    LET f == th[t]
        album_root == f.albums[f.i]
        path == f.unique_paths[f.j]
        next == NextRelative(f, f.j + 1)
        g == [f EXCEPT !.album_assets_ids = f.album_assets_ids \cup folder[path],
                       !.calls = Append(f.calls,
                           Call("get_folder_assets", album_root, path, "", NoId, << >>, {}, TRUE))]
    IN
    /\ f.pc = "get_subfolder_assets"
    /\ \/ /\ next <= Len(f.unique_paths)
          /\ th' = [th EXCEPT ![t] = [g EXCEPT !.j = next]]
       \/ /\ next > Len(f.unique_paths)
          /\ \E ids \in Orders(g.album_assets_ids) :
                th' = [th EXCEPT ![t] = Submit(g, ids)]
       \/ th' = [th EXCEPT ![t] =
                   Raise(f, Call("get_folder_assets", album_root, path, "", NoId, << >>, {}, FALSE))]
    /\ UNCHANGED <<lock, args, fs, folder, remote, nextId, passes, history, others>>

\* Lines 157-159: submit the next chunk; the remote adds the ids to the album
AlbumAddAssets(t) ==
    LET f == th[t]
        album_root == f.albums[f.i]
        chunk == Head(f.chunks)
        g == [f EXCEPT !.chunks = Tail(f.chunks),
                       !.calls = Append(f.calls,
                           Call("album_add_assets", album_root, album_root, f.album_name, f.album_id, << >>, Range(chunk), TRUE))]
    IN
    /\ f.pc = "album_add_assets"
    /\ \/ /\ \E n \in 1 .. Len(remote) : remote[n].id = f.album_id
          /\ remote' = [n \in 1 .. Len(remote) |->
                          IF remote[n].id = f.album_id
                          THEN [remote[n] EXCEPT !.assets = @ \cup Range(chunk)]
                          ELSE remote[n]]
          /\ th' = [th EXCEPT ![t] =
                      IF Tail(f.chunks) = << >> THEN NextAlbumRoot(g) ELSE g]
       \/ /\ th' = [th EXCEPT ![t] =
                      Raise(f, Call("album_add_assets", album_root, album_root, f.album_name, f.album_id, << >>, Range(chunk), FALSE))]
          /\ UNCHANGED remote
    /\ UNCHANGED <<lock, args, fs, folder, nextId, passes, history, others>>

\* A run() that returns after the loop without releasing the lock
ReleaseKeepingLock(t) ==
    LET f == th[t] IN
    /\ f.pc = "release"
    /\ th' = [th EXCEPT ![t] = [IdleFrame EXCEPT !.result = "done"]]
    /\ history' = Append(history, Summary(f.calls))
    /\ UNCHANGED <<lock, args, fs, folder, remote, nextId, passes, others>>

\* Line 161: the loop is over, release the lock and return
Release(t) ==
    LET f == th[t] IN
    /\ f.pc = "release"
    /\ lock' = FALSE
    /\ th' = [th EXCEPT ![t] = [IdleFrame EXCEPT !.result = "done"]]
    /\ history' = Append(history, Summary(f.calls))
    /\ UNCHANGED <<args, fs, folder, remote, nextId, passes, others>>

Next ==
    \E t \in Threads :
        \/ Acquire(t)
        \/ Skipped(t)
        \/ DeleteAllList(t)
        \/ DeleteAlbum(t)
        \/ GetAlbums(t)
        \/ GetUniquePaths(t)
        \/ SafeLoad(t)
        \/ CreateAlbum(t)
        \/ GetFolderAssets(t)
        \/ GetSubfolderAssets(t)
        \/ AlbumAddAssets(t)
        \/ Release(t)

Spec == Init /\ [][Next]_vars

-----------------------------------------------------------------------------
(* The server is shared: the albums get_albums returns (line 51) are those of
   every client of the account, and the web and mobile clients create albums
   through the same endpoint create_album posts to (line 64). *)

\* The names other clients give their albums
OtherAlbumNames == {"X"}

\* Another client creates an album on the server
OtherClientCreates ==
    /\ others < MaxOthers
    /\ \E album_name \in OtherAlbumNames :
          remote' = Append(remote,
                           [id |-> nextId, albumName |-> album_name, assets |-> {}])
    /\ nextId' = nextId + 1
    /\ others' = others + 1
    /\ UNCHANGED <<lock, args, fs, folder, th, passes, history>>

\* The program started for real (no dry-run), chunk size and pattern unset,
\* over a library with assets in both folders
InitWithOthers ==
    /\ Init
    /\ ~args.dry_run
    /\ args.chunk_size = 0
    /\ args.album_regex = ""
    /\ \A d \in {A, AB} : folder[d] # {}

NextWithOthers ==
    \/ Next
    \/ OtherClientCreates

SpecWithOthers == InitWithOthers /\ [][NextWithOthers]_vars

----------------------------------------------------------------------------
(* What the claims speak about *)

Running(t) == th[t].pc # "idle"

\* The positions of a thread's record that hold a call of this kind
CallsOf(t, op) == { n \in 1 .. Len(th[t].calls) : th[t].calls[n].op = op }

OkCallsOf(t, op) == { n \in CallsOf(t, op) : th[t].calls[n].ok }

----------------------------------------------------------------------------
(* C1: whenever no pass is executing the Run Guard flag is free, also after a
   pass that ended by an error, so that the next run() acquires it. *)
C1_FlagFreeWhenNoPassRuns ==
    (\A t \in Threads : ~Running(t)) => ~lock

(* C2: at most one pass executes at any time and the flag is held while it
   does; an invocation that found the flag held returned at once as skipped,
   is not inside run(), and made no remote call at all. *)
C2_AtMostOnePass ==
    /\ Cardinality({ t \in Threads : Running(t) }) <= 1
    /\ (\E t \in Threads : Running(t)) => lock
    /\ \A t \in Threads :
          th[t].result = "skipped" => ~Running(t) /\ th[t].calls = << >>

\* Two attempts overlap: one is in the middle of its pass, the other was skipped
C2_Witness ==
    \E t, u \in Threads :
        /\ t # u
        /\ Running(t) /\ OkCallsOf(t, "get_unique_paths") # {}
        /\ th[u].result = "skipped"

(* C3: in one pass createAlbum is called at most once per album name, and all
   addAssetsToAlbum calls made for one name target the same album id. *)
C3_OneAlbumPerNameInAPass ==
    \A t \in Threads :
        /\ \A m, n \in OkCallsOf(t, "create_album") :
              th[t].calls[m].albumName = th[t].calls[n].albumName => m = n
        /\ \A m, n \in CallsOf(t, "album_add_assets") :
              th[t].calls[m].albumName = th[t].calls[n].albumName
                  => th[t].calls[m].id = th[t].calls[n].id

(* C4: with dry-run enabled no createAlbum and no addAssetsToAlbum call is ever
   made, whatever the snapshot holds; after resolving a descriptor the pass is
   at the next directory or at its end. *)
C4_DryRunMutatesNothing ==
    args.dry_run =>
        \A t \in Threads :
            /\ CallsOf(t, "create_album") = {}
            /\ CallsOf(t, "album_add_assets") = {}
            /\ th[t].pc \notin {"create_album", "get_folder_assets",
                                "get_subfolder_assets", "album_add_assets"}

\* A dry-run pass is past its second directory; the first one's name is that of
\* an album of the snapshot, the second one's is not
C4_Witness ==
    /\ args.dry_run
    /\ \E t \in Threads :
          LET loads == OkCallsOf(t, "safe_load")
              NameOf(d) == Get(fs[d], "name",
                               process_album_name(args.album_regex, path_name(d)))
              Snap == { th[t].immich_albums[n].albumName :
                          n \in 1 .. Len(th[t].immich_albums) }
          IN  /\ Cardinality(loads) >= 2
              /\ \E m, n \in loads :
                    /\ NameOf(th[t].calls[m].dir) \in Snap
                    /\ NameOf(th[t].calls[n].dir) \notin Snap

(* C5: a call that raises is the last thing its pass does: the thread is out of
   run() and nothing follows the failed call in its record; what the pass
   created and submitted before stays on the remote, and no deleteAlbum
   follows a createAlbum or addAssetsToAlbum. *)
C5_ErrorAbortsPass ==
    \A t \in Threads :
        LET calls == th[t].calls IN
        /\ \A n \in 1 .. Len(calls) :
              ~calls[n].ok =>
                  /\ n = Len(calls)
                  /\ th[t].result = "raised"
                  /\ ~Running(t)
        /\ th[t].result = "raised" =>
              /\ \A n \in OkCallsOf(t, "create_album") :
                    \E k \in 1 .. Len(remote) :
                        /\ remote[k].id = calls[n].id
                        /\ remote[k].albumName = calls[n].albumName
              /\ \A n \in OkCallsOf(t, "album_add_assets") :
                    \E k \in 1 .. Len(remote) :
                        /\ remote[k].id = calls[n].id
                        /\ calls[n].ids \subseteq remote[k].assets
              /\ \A n \in CallsOf(t, "delete_album") :
                    \A m \in CallsOf(t, "create_album") \cup CallsOf(t, "album_add_assets") :
                        n < m

\* A pass created an album and submitted a chunk for one directory, then a
\* call for a later directory raised
C5_Witness ==
    \E t \in Threads :
        LET calls == th[t].calls IN
        /\ th[t].result = "raised"
        /\ \E c \in OkCallsOf(t, "create_album"), a \in OkCallsOf(t, "album_add_assets") :
              /\ calls[c].dir = calls[a].dir
              /\ calls[Len(calls)].dir # calls[a].dir
              /\ ~calls[Len(calls)].ok

\* The folders the remote reports as holding assets
AssetPaths == { d \in Dirs : folder[d] # {} }

\* d is p or lies above p in the tree
IsPrefix(d, p) == Len(d) <= Len(p) /\ \A k \in 1 .. Len(d) : d[k] = p[k]

\* The recursive flag the .album file of d asks for
RecursiveOf(d) == IF "recursive" \in fs[d].keys THEN fs[d].recursive ELSE TRUE

\* The assets that belong to the album of directory d
Membership(d) ==
    folder[d] \cup
        (IF RecursiveOf(d)
         THEN UNION { folder[p] : p \in { q \in AssetPaths : IsPrefix(d, q) } }
         ELSE {})

\* The chunks the pass of t sent or tried to send for directory d, in order,
\* each as the set of ids it carried
Sent(t, d) ==
    LET adds == SelectSeq(th[t].calls,
                          LAMBDA c : c.op = "album_add_assets" /\ c.dir = d)
    IN  [n \in 1 .. Len(adds) |-> adds[n].ids]

\* The directories the pass of t is done with
Finished(t) ==
    { th[t].albums[n] : n \in 1 .. Min(th[t].i - 1, Len(th[t].albums)) }

\* The ids of a sequence of chunks
AllOf(chunks) == UNION { chunks[n] : n \in 1 .. Len(chunks) }

\* The chunks of the directory the pass of t is submitting: those sent, then
\* those to come
Planned(t) ==
    Sent(t, th[t].albums[th[t].i])
        \o [n \in 1 .. Len(th[t].chunks) |-> Range(th[t].chunks[n])]

(* C6: the asset ids submitted for a directory are those listed directly under
   it, together with (only when recursive) those of every asset path below it,
   each id once; for a non-recursive directory only the directory itself is
   queried. *)
C6_AssetMembership ==
    \A t \in Threads :
        (Running(t) /\ ~args.dry_run) =>
            /\ \A d \in Finished(t) : AllOf(Sent(t, d)) = Membership(d)
            /\ th[t].pc = "album_add_assets" =>
                  AllOf(Planned(t)) = Membership(th[t].albums[th[t].i])
            /\ \A n \in CallsOf(t, "get_folder_assets") :
                  ~RecursiveOf(th[t].calls[n].dir) =>
                      th[t].calls[n].path = th[t].calls[n].dir

\* A with {1,2} and A/B with {2,3}: a pass submitted {1,2,3} for a recursive A
\* and has moved on
C6_Witness ==
    \E t \in Threads :
        /\ Running(t)
        /\ folder[A] = {1, 2} /\ folder[AB] = {2, 3}
        /\ A \in Finished(t)
        /\ AllOf(Sent(t, A)) = {1, 2, 3}

(* C7: the addAssetsToAlbum calls for one album carry chunks that together are
   the whole id list, every id in exactly one chunk and each chunk a slice of
   the list without repetition; with a chunk size k >= 1 every chunk but the
   last has k ids and the last has 1 to k; with the chunk size unset or zero
   there is exactly one chunk, carrying all ids. *)
C7_Chunking ==
    \A t \in Threads :
        th[t].pc = "album_add_assets" =>
            LET chunks == Planned(t)
                k      == args.chunk_size
            IN  /\ AllOf(chunks) = th[t].album_assets_ids
                /\ \A m, n \in 1 .. Len(chunks) : m # n => chunks[m] \cap chunks[n] = {}
                /\ \A n \in 1 .. Len(th[t].chunks) :
                      Len(th[t].chunks[n]) = Cardinality(Range(th[t].chunks[n]))
                /\ k >= 1 =>
                      /\ \A c \in 1 .. (Len(chunks) - 1) : Cardinality(chunks[c]) = k
                      /\ Cardinality(chunks[Len(chunks)]) \in 1 .. k
                /\ k = 0 => Len(chunks) = 1

\* More ids than the chunk size: full chunks were sent and a shorter one is left
C7_Witness ==
    \E t \in Threads :
        /\ th[t].pc = "album_add_assets"
        /\ args.chunk_size >= 1
        /\ Cardinality(th[t].album_assets_ids) > args.chunk_size
        /\ Len(Sent(t, th[t].albums[th[t].i])) >= 1
        /\ Len(th[t].chunks) = 1
        /\ Len(th[t].chunks[1]) < args.chunk_size

\* The directories that are an asset path or above one
Candidates == { d \in Dirs : \E p \in AssetPaths : IsPrefix(d, p) }

(* C8: the candidate set holds every asset path and every ancestor of one, the
   directories processed are exactly the candidates that carry a marker file,
   and every folder queried for an album lies at or below that album's marked
   directory. *)
C8_Discovery ==
    \A t \in Threads :
        (Running(t) /\ OkCallsOf(t, "get_unique_paths") # {}) =>
            /\ Range(th[t].unique_paths) = AssetPaths
            /\ potential_albums(th[t].unique_paths) = Candidates
            /\ Range(th[t].albums) = { d \in Candidates : d \in DOMAIN fs }
            /\ \A n \in 1 .. Len(th[t].calls) :
                  th[t].calls[n].op \in {"safe_load", "create_album",
                                         "get_folder_assets", "album_add_assets"}
                      => /\ th[t].calls[n].dir \in Candidates \cap DOMAIN fs
                         /\ IsPrefix(th[t].calls[n].dir, th[t].calls[n].path)

\* Only A/B holds assets and only the root carries a marker: the pass works on
\* the root, two levels above the asset path
C8_Witness ==
    \E t \in Threads :
        /\ Running(t)
        /\ AssetPaths = {AB}
        /\ DOMAIN fs = {Root}
        /\ \E n \in OkCallsOf(t, "get_folder_assets") :
              th[t].calls[n].dir = Root /\ th[t].calls[n].path = AB

\* Pass k of the history, compared with the pass that ran before it
Repeats(k) ==
    /\ history[k].created = 0
    /\ history[k].submitted = history[k - 1].submitted

(* C9, as claimed: of two passes run in succession on an unchanged filesystem,
   the second creates no album and submits for every directory the asset-id
   set the first one submitted. *)
C9_SecondPassRepeatsFirst ==
    \A k \in 2 .. Len(history) : Repeats(k)

(* C9, amended: the same, unless the passes run with the delete-all-albums
   flag set and dry-run off (the second pass then deletes the albums of the
   first and creates them again). *)
C9_SecondPassRepeatsFirstUnlessDeleteAll ==
    ~(args.delete_all_albums /\ ~args.dry_run) =>
        \A k \in 2 .. Len(history) : Repeats(k)

\* Two passes ran to the end without delete-all; the first created albums and
\* submitted assets
C9_Witness ==
    /\ ~args.delete_all_albums
    /\ Len(history) >= 2
    /\ history[1].created >= 2
    /\ \E d \in Dirs : history[1].submitted[d] # {}

(* C10: deleteAllAlbums lists the albums once and deletes them one at a time
   in list order: while it runs, the albums still to delete are exactly the
   albums left on the remote, in order, and its calls are one listing followed
   by deletions only.  When a deleteAlbum call fails, that album and all later
   ones are still on the remote, the albums deleted before stay deleted, and
   the pass is over without a snapshot or any later call. *)
C10_DeleteAllStopsAtFirstFailure ==
    \A t \in Threads :
        LET calls == th[t].calls
            \* the ids of the deletions of positions 2 .. n, in order
            Deleted(n) == [m \in 1 .. (n - 1) |-> calls[m + 1].id]
        IN
        /\ th[t].pc = "delete_album" =>
              /\ calls[1].op = "get_albums"
              /\ \A n \in 2 .. Len(calls) : calls[n].op = "delete_album" /\ calls[n].ok
              /\ calls[1].listed = Deleted(Len(calls)) \o th[t].albums_ids
              /\ th[t].albums_ids = RemoteIds
        /\ \A n \in CallsOf(t, "delete_album") :
              ~calls[n].ok =>
                  /\ n = Len(calls)
                  /\ ~Running(t) /\ th[t].result = "raised"
                  /\ CallsOf(t, "get_albums") = {1}
                  /\ \A m \in 2 .. (n - 1) : calls[m].op = "delete_album" /\ calls[m].ok
                  /\ calls[1].listed = Deleted(n - 1) \o RemoteIds
                  /\ Head(RemoteIds) = calls[n].id

\* Of three albums the first was deleted and the deletion of the second failed
C10_Witness ==
    \E t \in Threads :
        LET calls == th[t].calls IN
        /\ th[t].result = "raised"
        /\ Len(calls) = 3
        /\ calls[2].op = "delete_album" /\ calls[2].ok
        /\ calls[3].op = "delete_album" /\ ~calls[3].ok
        /\ Len(remote) >= 2

\* The position of the call that took the snapshot of line 109
SnapshotCall(t) ==
    CHOOSE n \in OkCallsOf(t, "get_albums") :
        \A m \in OkCallsOf(t, "get_albums") : m <= n

(* C11: with the delete-all-albums flag set, dry-run or not, a pass first
   lists the albums and deletes every one of them; only then does it take its
   snapshot, which finds none of them, and only then does it turn to the
   directories. *)
C11_DeleteAllComesFirst ==
    args.delete_all_albums =>
        \A t \in Threads :
            LET calls == th[t].calls IN
            /\ Running(t) /\ th[t].pc \notin {"delete_all_albums", "delete_album"} =>
                  /\ calls # << >>
                  /\ calls[1].op = "get_albums"
                  /\ \A id \in Range(calls[1].listed) :
                        /\ \E n \in OkCallsOf(t, "delete_album") : calls[n].id = id
                        /\ th[t].pc # "get_albums" =>
                              id \notin Range(calls[SnapshotCall(t)].listed)
            /\ \A n \in CallsOf(t, "delete_album") :
                  \A m \in 1 .. Len(calls) :
                      (m > 1 /\ calls[m].op # "delete_album") => n < m

\* A dry-run pass with the flag set deleted two albums and is at a directory
C11_Witness ==
    /\ args.delete_all_albums /\ args.dry_run
    /\ \E t \in Threads :
          /\ th[t].pc = "safe_load"
          /\ Cardinality(OkCallsOf(t, "delete_album")) >= 2
          /\ remote = << >>

\* The calls run() makes on behalf of one album directory
PerDirectoryOps == {"safe_load", "create_album", "get_folder_assets", "album_add_assets"}

\* The directories of the library in ascending path order: /, /2024 Trip,
\* /2024 Trip/B
Ascending == <<Root, A, AB>>

\* p comes before q in ascending path order
Before(p, q) ==
    \E m, n \in 1 .. Len(Ascending) : m < n /\ Ascending[m] = p /\ Ascending[n] = q

(* C12: the album directories are processed in ascending path order, one after
   another: of two calls made for directories, the earlier call is for the
   same directory or for one that comes before in path order; so when a name
   absent from the snapshot gets an album created, the earliest directory of
   that name has created one first. *)
C12_AscendingPathOrder ==
    \A t \in Threads :
        LET calls == th[t].calls
            perdir == { n \in 1 .. Len(calls) : calls[n].op \in PerDirectoryOps }
        IN
        /\ \A m, n \in perdir :
              m < n => calls[m].dir = calls[n].dir \/ Before(calls[m].dir, calls[n].dir)
        /\ \A n \in OkCallsOf(t, "create_album") :
              \A m \in CallsOf(t, "create_album") \cup CallsOf(t, "album_add_assets") :
                  (calls[m].albumName = calls[n].albumName
                   /\ Before(calls[m].dir, calls[n].dir))
                      => \E k \in OkCallsOf(t, "create_album") :
                            k < n /\ calls[k].dir = calls[m].dir

\* A pass went through /, /2024 Trip and /2024 Trip/B in that order, and the
\* last two have the same name, absent from the snapshot
C12_Witness ==
    \E t \in Threads :
        LET calls == th[t].calls IN
        \E k, m, n \in OkCallsOf(t, "create_album") :
            /\ k < m /\ m < n
            /\ calls[k].dir = Root /\ calls[m].dir = A /\ calls[n].dir = AB
            /\ calls[m].albumName = calls[n].albumName

\* The album name the .album file of d and the configured pattern call for
ExpectedName(d) ==
    LET leaf == IF d = Root THEN "" ELSE d[Len(d)] IN
    IF "name" \in fs[d].keys THEN fs[d].name
    ELSE IF args.album_regex = "\\d+" /\ leaf = "2024 Trip" THEN "2024"
    ELSE leaf

\* The albums of the snapshot the pass of t took, as they are on the remote
SnapshotAlbums(t) ==
    LET ids == Range(th[t].calls[SnapshotCall(t)].listed)
    IN  SelectSeq(remote, LAMBDA a : a.id \in ids)

SnapshotNames(t) ==
    LET snap == SnapshotAlbums(t)
    IN  { snap[n].albumName : n \in 1 .. Len(snap) }

(* C13: in a non-dry-run pass every listFolderAssets call for a directory comes
   after the find-or-create step for it: the name is in the snapshot or the
   pass has created the album before the call, whether the call then returns
   assets, returns none, or fails; a directory the pass is done with has its
   album even when its asset set is empty. *)
C13_AlbumBeforeAssets ==
    \A t \in Threads :
        LET calls == th[t].calls IN
        /\ \A n \in CallsOf(t, "get_folder_assets") :
              \/ ExpectedName(calls[n].dir) \in SnapshotNames(t)
              \/ \E m \in OkCallsOf(t, "create_album") :
                    /\ m < n
                    /\ calls[m].dir = calls[n].dir
                    /\ calls[m].albumName = ExpectedName(calls[n].dir)
                    /\ \E k \in 1 .. Len(remote) : remote[k].id = calls[m].id
        /\ (Running(t) /\ ~args.dry_run) =>
              \A d \in Finished(t) :
                  \E k \in 1 .. Len(remote) : remote[k].albumName = ExpectedName(d)

\* The listing for a directory without assets failed, or returned nothing, and
\* the album the pass created for it is on the remote
C13_Witness ==
    \E t \in Threads :
        LET calls == th[t].calls IN
        /\ th[t].result = "raised"
        /\ calls[Len(calls)].op = "get_folder_assets"
        /\ Membership(calls[Len(calls)].dir) = {}
        /\ calls[Len(calls) - 1].op = "create_album"
        /\ \E k \in 1 .. Len(remote) : remote[k].id = calls[Len(calls) - 1].id

\* The id of the first album of the snapshot of t that carries the name
FirstMatch(t, album_name) ==
    LET snap == SnapshotAlbums(t)
        n == CHOOSE k \in 1 .. Len(snap) :
                 /\ snap[k].albumName = album_name
                 /\ \A j \in 1 .. k - 1 : snap[j].albumName # album_name
    IN  snap[n].id

(* C15: when the snapshot holds an album of the resolved name, the pass creates
   no album for the directory and adds the directory's assets to the first
   album of that name in the snapshot. *)
C15_ExistingAlbumIsReused ==
    \A t \in Threads :
        LET calls == th[t].calls IN
        /\ \A n \in CallsOf(t, "create_album") :
              /\ calls[n].albumName = ExpectedName(calls[n].dir)
              /\ calls[n].albumName \notin SnapshotNames(t)
        /\ \A n \in CallsOf(t, "album_add_assets") :
              ExpectedName(calls[n].dir) \in SnapshotNames(t) =>
                  calls[n].id = FirstMatch(t, ExpectedName(calls[n].dir))
        /\ (Running(t) /\ th[t].pc \in {"get_folder_assets", "get_subfolder_assets",
                                         "album_add_assets"}) =>
              LET d == th[t].albums[th[t].i] IN
              ExpectedName(d) \in SnapshotNames(t) =>
                  th[t].album_id = FirstMatch(t, ExpectedName(d))

\* Two albums of the snapshot carry the name; assets went to the first, and no
\* album was created
C15_Witness ==
    \E t \in Threads :
        LET calls == th[t].calls IN
        /\ CallsOf(t, "create_album") = {}
        /\ \E n \in OkCallsOf(t, "album_add_assets") :
              /\ calls[n].id = 1
              /\ Cardinality({ k \in 1 .. Len(SnapshotAlbums(t)) :
                     SnapshotAlbums(t)[k].albumName = ExpectedName(calls[n].dir) }) = 2
              /\ calls[n].ids \subseteq remote[1].assets

\* The pass of t has resolved the descriptor of the directory it is at
Resolving(t) ==
    th[t].pc \in {"create_album", "get_folder_assets", "get_subfolder_assets",
                  "album_add_assets"}

\* The last component of d
Leaf(d) == IF d = Root THEN "" ELSE d[Len(d)]

(* C17, as stated: an empty marker file yields name = directory leaf name,
   description empty, order desc, recursive true; the name is the name key
   when present, else the first match of the configured pattern against the
   leaf name when there is one, else the leaf name. *)
C17_DescriptorResolutionAsStated ==
    \A t \in Threads :
        Resolving(t) =>
            LET f == th[t]
                d == f.albums[f.i]
            IN  /\ fs[d].keys = {} =>
                      /\ f.album_name = Leaf(d)
                      /\ f.album_desc = ""
                      /\ f.album_order = "desc"
                      /\ f.recursive
                /\ f.album_name = ExpectedName(d)

(* C17, amended: an empty marker file yields description empty, order desc,
   recursive true and the name the rule gives without a name key, which is the
   leaf name only when no pattern is configured or the pattern does not match
   it; the name is the name key when present, else the first match of the
   configured pattern against the leaf name when there is one, else the leaf
   name. *)
C17_DescriptorResolution ==
    \A t \in Threads :
        Resolving(t) =>
            LET f == th[t]
                d == f.albums[f.i]
                matched == args.album_regex = "\\d+" /\ Leaf(d) = "2024 Trip"
            IN  /\ fs[d].keys = {} =>
                      /\ f.album_name = IF matched THEN "2024" ELSE Leaf(d)
                      /\ f.album_desc = ""
                      /\ f.album_order = "desc"
                      /\ f.recursive
                /\ "name" \in fs[d].keys => f.album_name = fs[d].name
                /\ ("name" \notin fs[d].keys /\ matched) => f.album_name = "2024"
                /\ ("name" \notin fs[d].keys /\ ~matched) => f.album_name = Leaf(d)
                /\ \A n \in CallsOf(t, "create_album") :
                      f.calls[n].dir = d => f.calls[n].albumName = f.album_name

\* An empty marker file in "2024 Trip" with the pattern \d+ configured: the
\* album "2024" was created for it
C17_Witness ==
    \E t \in Threads :
        /\ Resolving(t)
        /\ th[t].albums[th[t].i] = A
        /\ fs[A].keys = {}
        /\ args.album_regex = "\\d+"
        /\ th[t].album_name = "2024"
        /\ \E n \in OkCallsOf(t, "create_album") :
              th[t].calls[n].dir = A /\ th[t].calls[n].albumName = "2024"
        /\ \E k \in 1 .. Len(remote) : remote[k].albumName = "2024"

(* C16: without the delete-all-albums flag no pass issues a deleteAlbum call,
   and no step removes an album from the remote or an asset from an album:
   every album stays, under its name, with at least the assets it had, also
   those that are not in the membership of any directory. *)
C16_OnlyAdds ==
    [][ ~args.delete_all_albums =>
          /\ \A t \in Threads :
                /\ CallsOf(t, "delete_album") = {}
                /\ th[t].pc \notin {"delete_all_albums", "delete_album"}
                /\ th'[t].pc \notin {"delete_all_albums", "delete_album"}
          /\ Len(remote') >= Len(remote)
          /\ \A k \in 1 .. Len(remote) :
                /\ remote'[k].id = remote[k].id
                /\ remote'[k].albumName = remote[k].albumName
                /\ remote[k].assets \subseteq remote'[k].assets ]_vars

\* A pass has added assets to an album that held an asset no directory holds;
\* the album still holds that asset
C16_Witness ==
    /\ ~args.delete_all_albums
    /\ Len(history) >= 1
    /\ Len(remote) >= 2
    /\ 9 \in remote[1].assets
    /\ 9 \notin UNION { folder[d] : d \in Dirs }
    /\ remote[1].assets \cap UNION { folder[d] : d \in Dirs } # {}

(* C18: a pass that reaches the end of run() without error returns with the
   flag released, in dry-run and with no album directory too; an invocation
   is skipped only while a pass is executing or after one that ended by an
   error, never when every pass so far has completed. *)
C18_CompletedPassReleases ==
    [][ /\ \A t \in Threads :
              (th[t].result = "running" /\ th'[t].result = "done") => ~lock'
        /\ (passes = Len(history)) => ~lock
        /\ \A t \in Threads :
              (th[t].result # "skipped" /\ th'[t].result = "skipped") =>
                  passes > Len(history) ]_vars

\* A dry-run pass over two album directories has completed and the next
\* invocation has started a pass
C18_Witness ==
    /\ args.dry_run
    /\ Len(history) = 1
    /\ passes = 2
    /\ lock
    /\ \E t \in Threads :
          /\ Running(t)
          /\ Len(th[t].albums) >= 2
          /\ Cardinality(OkCallsOf(t, "safe_load")) >= 1

(* C19: the step by which an invocation is skipped leaves the flag as it was,
   held, and leaves the pass that holds it, the remote and the pass counters
   alone; no pass can start from the state it leaves. *)
C19_SkippedLeavesFlag ==
    [][ \A t \in Threads :
          (th[t].result # "skipped" /\ th'[t].result = "skipped") =>
              /\ lock /\ lock'
              /\ \A u \in Threads \ {t} : th'[u] = th[u]
              /\ UNCHANGED <<remote, passes, history>>
              /\ ~acquire(lock') ]_vars

\* An invocation was skipped while the pass of the other thread was creating
\* albums; that pass goes on holding the flag
C19_Witness ==
    \E t, u \in Threads :
        /\ th[t].result = "skipped"
        /\ Running(u)
        /\ OkCallsOf(u, "create_album") # {}
        /\ lock
        /\ passes = 1

\* The ids of the albums the pass of t has created
CreatedBy(t) == { th[t].calls[n].id : n \in OkCallsOf(t, "create_album") }

\* The ids of the albums in the snapshot of the pass of t
SnapshotIds(t) == Range(th[t].calls[SnapshotCall(t)].listed)

\* The albums on the remote that another client created after the pass of t
\* took its snapshot
CreatedSinceSnapshot(t) ==
    { k \in 1 .. Len(remote) : remote[k].id \notin SnapshotIds(t) \cup CreatedBy(t) }

(* C14: a pass lists the albums once for its snapshot (once more, before it,
   for delete-all) and never during the per-directory loop; every album it
   adds assets to is in that snapshot or was created by the pass itself, so an
   album another client created after the snapshot is never matched, whatever
   its name; the pass creates an album exactly for names the snapshot lacks. *)
C14_SingleSnapshot ==
    \A t \in Threads :
        LET calls == th[t].calls
            known == SnapshotIds(t) \cup CreatedBy(t)
            since == { remote[k].id : k \in CreatedSinceSnapshot(t) }
            names == SnapshotNames(t)
        IN
        /\ Cardinality(OkCallsOf(t, "get_albums")) <=
              (IF args.delete_all_albums THEN 2 ELSE 1)
        /\ \A n \in CallsOf(t, "get_albums") :
              \A m \in 1 .. n - 1 :
                  calls[m].op \in {"get_albums", "delete_album"}
        /\ \A n \in CallsOf(t, "album_add_assets") :
              /\ calls[n].id \in known
              /\ calls[n].id \notin since
        /\ \A n \in CallsOf(t, "create_album") :
              calls[n].albumName \notin names
        /\ (Running(t) /\ Resolving(t)) =>
              /\ th[t].pc = "create_album" <=> th[t].album_id = NoId
              /\ th[t].pc = "create_album" => th[t].album_name \notin names
              /\ th[t].pc # "create_album" =>
                    /\ th[t].album_id \in known
                    /\ th[t].album_id \notin since
                    /\ th[t].album_id \in SnapshotIds(t) <=> th[t].album_name \in names

\* Another client created an album "X" after the snapshot; the pass did not
\* match it: it created an album "X" of its own and added the assets to that
C14_Witness ==
    \E t \in Threads :
        LET calls == th[t].calls IN
        /\ OkCallsOf(t, "get_albums") # {}
        /\ \E n \in OkCallsOf(t, "create_album") :
              /\ calls[n].albumName = "X"
              /\ \E k \in CreatedSinceSnapshot(t) :
                    /\ remote[k].albumName = "X"
                    /\ remote[k].id < calls[n].id
                    /\ remote[k].assets = {}
              /\ \E m \in OkCallsOf(t, "album_add_assets") : calls[m].id = calls[n].id

\* The ids the pass of t has deleted
DeletedBy(t) == { th[t].calls[n].id : n \in OkCallsOf(t, "delete_album") }

(* C20: in a pass with the delete-all-albums flag whose deletion succeeded, no
   addAssetsToAlbum call targets an album the pass deleted: the album is one
   the pass created, or one of the snapshot that was not in the list of albums
   to delete (it appeared on the remote after that list was taken). *)
C20_NoAddToDeletedAlbum ==
    args.delete_all_albums =>
        \A t \in Threads :
            LET calls == th[t].calls IN
            \A n \in CallsOf(t, "album_add_assets") :
                /\ calls[n].id \notin DeletedBy(t)
                /\ Range(calls[1].listed) \subseteq DeletedBy(t)
                /\ \/ calls[n].id \in CreatedBy(t)
                   \/ /\ calls[n].id \in SnapshotIds(t)
                      /\ calls[n].id \notin Range(calls[1].listed)
                /\ \E k \in 1 .. Len(remote) : remote[k].id = calls[n].id

\* The pass deleted the albums, another client created an album "X" before
\* the snapshot, and the pass added assets to that album
C20_Witness ==
    /\ args.delete_all_albums
    /\ \E t \in Threads :
          LET calls == th[t].calls IN
          /\ Cardinality(DeletedBy(t)) >= 2
          /\ \E n \in OkCallsOf(t, "album_add_assets") :
                /\ calls[n].id \in SnapshotIds(t)
                /\ calls[n].id \notin CreatedBy(t)
                /\ calls[n].id \notin Range(calls[1].listed)
                /\ \E k \in 1 .. Len(remote) :
                      remote[k].id = calls[n].id /\ remote[k].assets # {}

====
